---- MODULE Spec2Model ----
(***************************************************************************)
(* A model of the enhanced Qianwen client (src/qianwen_client_enhanced.py  *)
(* and src/config.py): the storage factory, the MongoDB memory and log     *)
(* storages, the MemoryManager with its local cache, the LogManager and    *)
(* the QianwenChat session builder.                                        *)
(*                                                                         *)
(* Python values are modelled as follows.                                  *)
(*   - None for an optional limit is the empty tuple, a given limit n is   *)
(*     the tuple <<n>> (see NoLimit, Some).                                *)
(*   - A message content is a record [kind, text]: kind "str" is a Python  *)
(*     str, "num" and "list" are the values json.loads produces from a str *)
(*     that happens to be JSON.                                            *)
(*   - Session identifiers are strings; the cache key is the f-string      *)
(*     user_id + ":" + session_id, by string concatenation.                *)
(***************************************************************************)
EXTENDS Integers, Sequences, FiniteSets, TLC

(***************************************************************************)
(* Bounds of the model.                                                    *)
(***************************************************************************)
\* Number of save_message calls a behaviour of the memory layer makes.
MaxMsgs == 2
\* Largest configured max_history_length (values 0..MaxHist are drawn).
MaxHist == 2
\* Largest explicit limit argument (None and 0..MaxLimit are drawn).
MaxLimit == 2
\* Wall-clock readings are drawn from 0..MaxClock; datetime.utcnow() is not
\* monotonic, so any reading may follow any other.
MaxClock == 1

Users == {"a", "a:b"}
Sessions == {"c", "b:c"}
Times == 0..MaxClock

NoLimit == <<>>
Some(n) == <<n>>
Limits == {NoLimit} \cup {Some(n) : n \in 0..MaxLimit}
\* Python truth value of an Optional[int]: None and 0 are false.
Truthy(limit) == limit # NoLimit /\ limit[1] # 0

(***************************************************************************)
(* Message contents and the JSON conversions of MemoryManager.             *)
(***************************************************************************)
Str(s) == [kind |-> "str", text |-> s]
Num(s) == [kind |-> "num", text |-> s]
List(s) == [kind |-> "list", text |-> s]

\* json.dumps of a structured (non-str) content.
json_dumps(content) == Str(content.text)

\* json.loads of a stored str: a str that is JSON text comes back as the
\* value it denotes; any other str raises JSONDecodeError.
JsonNumbers == {"42"}
JsonLists == {"[img]"}
json_loads_ok(s) == s \in JsonNumbers \cup JsonLists
json_loads(s) == IF s \in JsonNumbers THEN Num(s) ELSE List(s)

(***************************************************************************)
(* Configuration (src/config.py: MemoryConfig, LogConfig).                 *)
(***************************************************************************)
MemoryStorageTypes == {"mongodb", "redis", "file", "custom"}
LogStorageTypes == {"mongodb", "file", "custom"}

MemoryConfigs ==
    [enabled : BOOLEAN, storage_type : MemoryStorageTypes,
     max_history_length : 0..MaxHist, custom_storage : BOOLEAN]

LogConfigs ==
    [enabled : BOOLEAN, storage_type : LogStorageTypes,
     log_requests : BOOLEAN, log_responses : BOOLEAN, log_errors : BOOLEAN,
     custom_storage : BOOLEAN]

VARIABLES
    \* --- MemoryManager and MongoMemoryStorage
    memConfig,      \* the MemoryConfig handed to MemoryManager
    ttlCache,       \* TRUE iff cachetools.TTLCache could be imported
    mmStorage,      \* MemoryManager.storage: "None", "custom" or "mongo"
    mmLocalCache,   \* MemoryManager._local_cache: "None" or "TTLCache"
    cacheEntries,   \* the entries of the TTLCache: cache_key -> messages
    mongoReady,     \* MongoMemoryStorage._collection is not None
    collection,     \* the documents of the memory collection, as inserted
    nSaved,         \* number of save_message calls made so far
    storageCalls,   \* TRUE once any method of the memory storage was called
    last,           \* the MemoryManager call made last and what it returned
    \* --- LogManager and its storage
    logConfig,      \* the LogConfig handed to LogManager
    lmStorage,      \* LogManager.storage: "None", "custom" or "mongo"
    logReady,       \* MongoLogStorage._collection is not None
    logRecords,     \* the records the log storage holds, as written
    nextUuid,       \* number of uuid4() values drawn so far
    lastLog,        \* the LogManager call made last and what it returned
    \* --- QianwenClient
    clientPc,       \* where the client is in its life
    memory_manager, \* QianwenClient.memory_manager is not None
    log_manager,    \* QianwenClient.log_manager is not None
    initError,      \* the exception initialize() raised, "" if none
    resources,      \* what the client holds: each "none", "open" or "closed"
    faulty,         \* TRUE iff operations of the storages may fail
    \* --- QianwenChat
    chat,           \* the builder's parameters
    call,           \* the ask / stream invocation in flight or finished last
    nCalls,         \* number of ask / stream invocations started so far
    peer            \* a second builder of the client and its invocation,
                    \* while the event loop runs the first one

memVars == <<memConfig, ttlCache, mmStorage, mmLocalCache, cacheEntries,
             mongoReady, collection, nSaved, storageCalls, last>>
logVars == <<logConfig, lmStorage, logReady, logRecords, nextUuid, lastLog>>
clientVars == <<clientPc, memory_manager, log_manager, initError, resources, faulty>>
chatVars == <<chat, call, nCalls, peer>>

vars == <<memVars, logVars, clientVars, chatVars>>

\* The layers a specification does not drive stay as they are here.
LogIdle ==
    /\ logConfig = [enabled |-> FALSE, storage_type |-> "mongodb",
                    log_requests |-> TRUE, log_responses |-> TRUE,
                    log_errors |-> TRUE, custom_storage |-> FALSE]
    /\ lmStorage = "None"
    /\ logReady = FALSE
    /\ logRecords = <<>>
    /\ nextUuid = 0
    /\ lastLog = [op |-> "none", request_id |-> <<>>, ret |-> <<>>, wrote |-> FALSE]

\* The connections a client holds: of the memory storage, of the log
\* storage, and the AsyncOpenAI transport.
Resources(memory, log, transport) ==
    [memory |-> memory, log |-> log, transport |-> transport]

ClientIdle ==
    /\ clientPc = "none"
    /\ memory_manager = FALSE
    /\ log_manager = FALSE
    /\ initError = ""
    /\ resources = Resources("none", "none", "none")
    /\ faulty = FALSE

\* No invocation made yet.
NoChatCall ==
    [kind |-> "none", pc |-> "done", message |-> "", history |-> <<>>,
     request |-> <<>>, request_id |-> <<>>, response |-> [choices |-> <<>>],
     yielded |-> <<>>, full_content |-> "", before |-> 0,
     error |-> "", outcome |-> "", content |-> <<>>, events |-> <<>>,
     sent |-> <<>>, key |-> <<"", "">>]

\* No second builder.
NoPeer == [chat |-> <<>>, call |-> NoChatCall]

ChatIdle ==
    /\ chat = <<>>
    /\ call = NoChatCall
    /\ nCalls = 0
    /\ peer = NoPeer

(***************************************************************************)
(* StorageFactory.create_memory_storage.  The result is "None", "custom"   *)
(* (the instance the configuration carries), "mongo" (a new                *)
(* MongoMemoryStorage), or the exception raised.                           *)
(***************************************************************************)
\* Mutant of create_memory_storage: the custom instance is returned before
\* the enabled flag is looked at.
create_memory_storage_CustomFirst(config) ==
    IF config.custom_storage THEN "custom"
    ELSE IF ~config.enabled THEN "None"
    ELSE IF config.storage_type = "mongodb" THEN "mongo"
    ELSE IF config.storage_type \in {"redis", "file"} THEN "NotImplementedError"
    ELSE "ValueError"

create_memory_storage(config) ==
    IF ~config.enabled THEN "None"
    ELSE IF config.custom_storage THEN "custom"
    ELSE IF config.storage_type = "mongodb" THEN "mongo"
    ELSE IF config.storage_type \in {"redis", "file"} THEN "NotImplementedError"
    ELSE "ValueError"

Raised(result) == result \in {"NotImplementedError", "ValueError"}

(***************************************************************************)
(* MongoMemoryStorage (src/config.py).                                     *)
(***************************************************************************)
\* The document save_message inserts; timestamp is datetime.utcnow().
MongoDocument(user_id, session_id, role, content, metadata, now) ==
    [user_id |-> user_id, session_id |-> session_id, role |-> role,
     content |-> content, metadata |-> metadata, timestamp |-> now]

\* The collection after MongoMemoryStorage.save_message.
MongoSaveMessage(coll, ready, user_id, session_id, role, content, metadata, now) ==
    IF ~ready THEN coll
    ELSE Append(coll, MongoDocument(user_id, session_id, role, content, metadata, now))

\* Mutant of MongoFind: the query selects by session_id alone.
MongoFind_BySession(coll, user_id, session_id) ==
    {i \in DOMAIN coll : coll[i].session_id = session_id}

\* Positions of the documents the query {user_id, session_id} selects.
MongoFind(coll, user_id, session_id) ==
    {i \in DOMAIN coll : coll[i].user_id = user_id /\ coll[i].session_id = session_id}

\* Mutant of MongoSort: the sort is left out, the documents come in
\* insertion order.
MongoSort_Unsorted(coll, found) ==
    LET n == Cardinality(found)
    IN {order \in [1..n -> found] : \A i, j \in 1..n : i < j => order[i] < order[j]}

\* cursor.sort("timestamp", 1): every order of the selected documents with
\* non-decreasing timestamps (MongoDB leaves the order of equal keys open).
MongoSort(coll, found) ==
    LET n == Cardinality(found)
    IN {order \in [1..n -> found] :
            /\ \A i, j \in 1..n : i # j => order[i] # order[j]
            /\ \A i, j \in 1..n : i < j =>
                   coll[order[i]].timestamp <= coll[order[j]].timestamp}

\* cursor.limit(n): the first n of the sorted documents; limit 0 is no limit.
MongoLimit(order, n) ==
    IF n = 0 \/ n >= Len(order) THEN order ELSE SubSeq(order, 1, n)

\* The limit MongoMemoryStorage.get_history applies (0: none).
MongoEffectiveLimit(limit, max_history_length) ==
    IF Truthy(limit) THEN limit[1]
    ELSE IF max_history_length > 0 THEN max_history_length
    ELSE 0

\* What get_history makes of one document.
MongoMessage(doc) ==
    [role |-> doc.role, content |-> doc.content, metadata |-> doc.metadata,
     timestamp |-> doc.timestamp]

\* The lists MongoMemoryStorage.get_history may return.
MongoGetHistory(coll, ready, config, user_id, session_id, limit) ==
    IF ~ready THEN {<<>>}
    ELSE {[i \in DOMAIN MongoLimit(order, MongoEffectiveLimit(limit, config.max_history_length))
              |-> MongoMessage(coll[order[i]])] :
            order \in MongoSort(coll, MongoFind(coll, user_id, session_id))}

\* Mutant of MongoDeleteMany: delete_one, only the first selected document
\* is deleted.
RECURSIVE MongoDeleteMany_One(_, _, _)
MongoDeleteMany_One(coll, user_id, session_id) ==
    IF coll = <<>> THEN <<>>
    ELSE IF Head(coll).user_id = user_id /\ Head(coll).session_id = session_id
         THEN Tail(coll)
         ELSE <<Head(coll)>> \o MongoDeleteMany_One(Tail(coll), user_id, session_id)

\* Mutant of MongoClearHistory: the query selects by user_id alone.
MongoClearHistory_ByUser(coll, ready, user_id, session_id) ==
    IF ~ready THEN coll
    ELSE SelectSeq(coll, LAMBDA doc : doc.user_id # user_id)

\* The collection after MongoMemoryStorage.clear_history (delete_many).
RECURSIVE MongoDeleteMany(_, _, _)
MongoDeleteMany(coll, user_id, session_id) ==
    IF coll = <<>> THEN <<>>
    ELSE LET rest == MongoDeleteMany(Tail(coll), user_id, session_id)
         IN IF Head(coll).user_id = user_id /\ Head(coll).session_id = session_id
            THEN rest
            ELSE <<Head(coll)>> \o rest

MongoClearHistory(coll, ready, user_id, session_id) ==
    IF ~ready THEN coll ELSE MongoDeleteMany(coll, user_id, session_id)

(***************************************************************************)
(* MemoryManager (src/qianwen_client_enhanced.py).                         *)
(***************************************************************************)
\* ChatMessage; timestamp defaults to datetime.now() at creation.
ChatMessage(role, content, timestamp, user_id, session_id, metadata) ==
    [role |-> role, content |-> content, timestamp |-> timestamp,
     user_id |-> user_id, session_id |-> session_id, metadata |-> metadata]

\* MemoryManager.__init__: the _local_cache it creates.
MemoryManagerLocalCache(config, ttl) ==
    IF ttl /\ config.enabled THEN "TTLCache" ELSE "None"

\* f"{user_id}:{session_id}"
CacheKey(user_id, session_id) == user_id \o ":" \o session_id

\* Mutant of LocalCacheTruthy: the test is `is not None`, so an empty cache
\* counts as present.
LocalCacheTruthy_NotNone(localCache, entries) ==
    localCache = "TTLCache"

\* `if self._local_cache:` is the truth value of the cache object: None is
\* false, and a TTLCache (a MutableMapping) is false while it is empty.
LocalCacheTruthy(localCache, entries) ==
    localCache = "TTLCache" /\ DOMAIN entries # {}

\* The content save_message hands to the storage.
SavedContent(content) ==
    IF content.kind = "str" THEN content ELSE json_dumps(content)

\* The content get_history makes of a stored one.
LoadedContent(content) ==
    IF json_loads_ok(content.text) THEN json_loads(content.text) ELSE content

\* The ChatMessage list get_history builds from the storage's answer.
HistoryMessages(messages_data, user_id, session_id) ==
    [i \in DOMAIN messages_data |->
        ChatMessage(messages_data[i].role, LoadedContent(messages_data[i].content),
                    messages_data[i].timestamp, user_id, session_id,
                    messages_data[i].metadata)]

\* cached_messages[-limit:]
LastN(messages, n) ==
    IF n >= Len(messages) THEN messages
    ELSE SubSeq(messages, Len(messages) - n + 1, Len(messages))

\* The cache-hit branch of get_history.
CachedHistory(entries, cache_key, limit) ==
    IF Truthy(limit) THEN LastN(entries[cache_key], limit[1]) ELSE entries[cache_key]

\* The cache after an entry is set, and after one is deleted.
CacheSet(entries, cache_key, messages) ==
    [k \in DOMAIN entries \cup {cache_key} |->
        IF k = cache_key THEN messages ELSE entries[k]]

CacheDel(entries, cache_key) ==
    [k \in DOMAIN entries \ {cache_key} |-> entries[k]]

\* The record of a MemoryManager call: the call, what it returned (ret, for
\* get_history), whether it directly followed a clear_history of the same
\* session key (afterClear) and how many stored documents that clear's
\* query selected (found).
Call(op, user_id, session_id, limit, ret, afterClear, found) ==
    [op |-> op, user_id |-> user_id, session_id |-> session_id, limit |-> limit,
     ret |-> ret, afterClear |-> afterClear, found |-> found]

NoCall == Call("none", "", "", NoLimit, <<>>, FALSE, 0)

\* Metadata a caller attaches to a message: here the session key it saves
\* the message under.  ChatMessage's default metadata is the empty dict.
Tag(user_id, session_id) == <<user_id, session_id>>
EmptyMetadata == <<>>

\* The (role, content) pairs the memory layer is driven with.
SavePayloads == {<<"user", Str("hi")>>}

(***************************************************************************)
(* MemoryManager.save_message(message): the collection and the cache it    *)
(* leaves, and whether a method of the storage was called.                 *)
(* message.timestamp is datetime.now() at the ChatMessage's creation, the  *)
(* document's timestamp (dbNow) is datetime.utcnow() at the insert.  A     *)
(* custom storage is not modelled beyond the fact that it is called.       *)
(***************************************************************************)
SaveOutcome(message, dbNow) ==
    IF mmStorage = "None"
    THEN [collection |-> collection, entries |-> cacheEntries, called |-> FALSE]
    ELSE LET cache_key == CacheKey(message.user_id, message.session_id)
         IN [collection |->
                 IF mmStorage = "mongo"
                 THEN MongoSaveMessage(collection, mongoReady, message.user_id,
                                       message.session_id, message.role,
                                       SavedContent(message.content),
                                       message.metadata, dbNow)
                 ELSE collection,
             entries |->
                 IF LocalCacheTruthy(mmLocalCache, cacheEntries)
                    /\ cache_key \in DOMAIN cacheEntries
                 THEN CacheSet(cacheEntries, cache_key,
                               Append(cacheEntries[cache_key], message))
                 ELSE cacheEntries,
             called |-> TRUE]

MM_save_message(message, dbNow) ==
    LET o == SaveOutcome(message, dbNow)
    IN /\ nSaved < MaxMsgs
       /\ nSaved' = nSaved + 1
       /\ collection' = o.collection
       /\ cacheEntries' = o.entries
       /\ storageCalls' = (storageCalls \/ o.called)
       /\ last' = Call("save", message.user_id, message.session_id, NoLimit, <<>>, FALSE, 0)
       /\ UNCHANGED <<memConfig, ttlCache, mmStorage, mmLocalCache, mongoReady>>
       /\ UNCHANGED <<logVars, clientVars, chatVars>>

SaveMessage ==
    \E u \in Users, s \in Sessions, p \in SavePayloads, msgNow \in Times, dbNow \in Times :
        MM_save_message(ChatMessage(p[1], p[2], msgNow, u, s, Tag(u, s)), dbNow)

(***************************************************************************)
(* MemoryManager.get_history(user_id, session_id, limit): the lists it may *)
(* return, each with the cache it leaves.                                  *)
(***************************************************************************)
\* The answers of the storage (a custom storage is taken to answer with no
\* message).
StorageGetHistory(user_id, session_id, limit) ==
    IF mmStorage = "mongo"
    THEN MongoGetHistory(collection, mongoReady, memConfig, user_id, session_id, limit)
    ELSE {<<>>}

HistoryOutcomes(user_id, session_id, limit) ==
    LET cache_key == CacheKey(user_id, session_id)
    IN IF mmStorage = "None"
       THEN {[ret |-> <<>>, entries |-> cacheEntries, called |-> FALSE]}
       ELSE IF LocalCacheTruthy(mmLocalCache, cacheEntries)
               /\ cache_key \in DOMAIN cacheEntries
       THEN {[ret |-> CachedHistory(cacheEntries, cache_key, limit),
              entries |-> cacheEntries, called |-> FALSE]}
       ELSE {[ret |-> HistoryMessages(messages_data, user_id, session_id),
              entries |->
                  IF LocalCacheTruthy(mmLocalCache, cacheEntries)
                  THEN CacheSet(cacheEntries, cache_key,
                                HistoryMessages(messages_data, user_id, session_id))
                  ELSE cacheEntries,
              called |-> TRUE] :
                messages_data \in StorageGetHistory(user_id, session_id, limit)}

MM_get_history(user_id, session_id, limit) ==
    LET afterClear == last.op = "clear" /\ last.user_id = user_id
                      /\ last.session_id = session_id
        found == IF afterClear THEN last.found ELSE 0
    IN \E o \in HistoryOutcomes(user_id, session_id, limit) :
          /\ cacheEntries' = o.entries
          /\ storageCalls' = (storageCalls \/ o.called)
          /\ last' = Call("history", user_id, session_id, limit, o.ret, afterClear, found)
          /\ UNCHANGED <<memConfig, ttlCache, mmStorage, mmLocalCache, mongoReady,
                         collection, nSaved>>
          /\ UNCHANGED <<logVars, clientVars, chatVars>>

GetHistory ==
    \E u \in Users, s \in Sessions, limit \in Limits : MM_get_history(u, s, limit)

(***************************************************************************)
(* MemoryManager.clear_history(user_id, session_id).                       *)
(***************************************************************************)
ClearOutcome(user_id, session_id) ==
    IF mmStorage = "None"
    THEN [collection |-> collection, entries |-> cacheEntries, called |-> FALSE]
    ELSE LET cache_key == CacheKey(user_id, session_id)
         IN [collection |->
                 IF mmStorage = "mongo"
                 THEN MongoClearHistory(collection, mongoReady, user_id, session_id)
                 ELSE collection,
             entries |->
                 IF LocalCacheTruthy(mmLocalCache, cacheEntries)
                    /\ cache_key \in DOMAIN cacheEntries
                 THEN CacheDel(cacheEntries, cache_key)
                 ELSE cacheEntries,
             called |-> TRUE]

MM_clear_history(user_id, session_id) ==
    LET o == ClearOutcome(user_id, session_id)
    IN /\ collection' = o.collection
       /\ cacheEntries' = o.entries
       /\ storageCalls' = (storageCalls \/ o.called)
       /\ last' = Call("clear", user_id, session_id, NoLimit, <<>>, FALSE,
                       Cardinality(MongoFind(collection, user_id, session_id)))
       /\ UNCHANGED <<memConfig, ttlCache, mmStorage, mmLocalCache, mongoReady, nSaved>>
       /\ UNCHANGED <<logVars, clientVars, chatVars>>

ClearHistory ==
    \E u \in Users, s \in Sessions : MM_clear_history(u, s)

(***************************************************************************)
(* The memory layer: a MemoryManager built from a configuration with       *)
(* memory disabled or with the MongoDB storage, initialized (the storage's *)
(* initialize() may have failed, leaving no collection), then driven by    *)
(* any sequence of save / history / clear calls.                           *)
(***************************************************************************)
MemInitConfigs ==
    {c \in MemoryConfigs :
        ~c.enabled \/ (c.storage_type = "mongodb" /\ ~c.custom_storage)}

\* The state of a MemoryManager built from memConfig and initialized.
MemoryManagerInit ==
    /\ mmStorage = create_memory_storage(memConfig)
    /\ mmLocalCache = MemoryManagerLocalCache(memConfig, ttlCache)
    /\ cacheEntries = <<>>
    /\ mongoReady \in (IF mmStorage = "mongo" THEN BOOLEAN ELSE {FALSE})
    /\ collection = <<>>
    /\ nSaved = 0
    /\ storageCalls = FALSE
    /\ last = NoCall

MemInit ==
    /\ memConfig \in MemInitConfigs
    /\ ttlCache \in BOOLEAN
    /\ MemoryManagerInit
    /\ LogIdle
    /\ ClientIdle
    /\ ChatIdle

MemNext == SaveMessage \/ GetHistory \/ ClearHistory

SpecMem == MemInit /\ [][MemNext]_vars

(***************************************************************************)
(* Correlation ids.  None is the empty tuple; Given(s) is a str the caller *)
(* supplies (possibly the empty str); Uuid(n) is the n-th str(uuid.uuid4()) *)
(* drawn, each different from every other id.                              *)
(***************************************************************************)
NoId == <<>>
Given(s) == <<"given", s>>
Uuid(n) == <<"uuid4", n>>
\* Python truth value of an Optional[str]: None and "" are false.
IdTruthy(id) == id # NoId /\ id # Given("")

(***************************************************************************)
(* StorageFactory.create_log_storage.                                      *)
(***************************************************************************)
\* Mutant of create_log_storage: the built-in tag is dispatched on before
\* the custom instance is looked at.
create_log_storage_TagFirst(config) ==
    IF ~config.enabled THEN "None"
    ELSE IF config.storage_type = "mongodb" THEN "mongo"
    ELSE IF config.custom_storage THEN "custom"
    ELSE IF config.storage_type = "file" THEN "NotImplementedError"
    ELSE "ValueError"

create_log_storage(config) ==
    IF ~config.enabled THEN "None"
    ELSE IF config.custom_storage THEN "custom"
    ELSE IF config.storage_type = "mongodb" THEN "mongo"
    ELSE IF config.storage_type = "file" THEN "NotImplementedError"
    ELSE "ValueError"

(***************************************************************************)
(* The log storages.  A record is what one insert (MongoLogStorage) or one *)
(* appended line (a custom storage such as FileLogStorage) holds.          *)
(***************************************************************************)
LogRecord(log_type, user_id, session_id, data, request_id) ==
    [log_type |-> log_type, user_id |-> user_id, session_id |-> session_id,
     data |-> data, request_id |-> request_id]

\* The per-kind flag of LogConfig.
LogFlag(config, log_type) ==
    CASE log_type = "request" -> config.log_requests
      [] log_type = "response" -> config.log_responses
      [] log_type = "error" -> config.log_errors

\* MongoLogStorage.log_request / log_response / log_error: the records
\* after the call; the insert itself succeeds (ok) or raises, which the
\* method catches.
MongoLogWrite(records, config, ready, record, ok) ==
    IF ~LogFlag(config, record.log_type) \/ ~ready THEN records
    ELSE IF ok THEN Append(records, record)
    ELSE records

\* A custom storage (FileLogStorage): it appends the record, or raises.
CustomLogWrite(records, record, ok) ==
    IF ok THEN Append(records, record) ELSE records

\* self.storage.log_request / log_response / log_error of LogManager.
StorageLogWrite(record, ok) ==
    IF lmStorage = "mongo"
    THEN MongoLogWrite(logRecords, logConfig, logReady, record, ok)
    ELSE CustomLogWrite(logRecords, record, ok)

(***************************************************************************)
(* LogManager.                                                             *)
(***************************************************************************)
\* Mutant of RequestIdOrUuid: the caller's id is passed on as it is.
RequestIdOrUuid_AsGiven(request_id, n) == request_id

\* request_id or str(uuid.uuid4()), n the number of uuids drawn before.
RequestIdOrUuid(request_id, n) ==
    IF IdTruthy(request_id) THEN request_id ELSE Uuid(n + 1)

\* d.get(k): <<d[k]>>, or <<>> for None when d has no key k.
Get(d, k) == IF k \in DOMAIN d THEN <<d[k]>> ELSE <<>>

\* The log_data dict log_request builds from request_data.
RequestLogData(request_id, request_data) ==
    [request_id |-> request_id,
     payload |-> [model |-> Get(request_data, "model"),
                  messages |-> Get(request_data, "messages"),
                  temperature |-> Get(request_data, "temperature"),
                  max_tokens |-> Get(request_data, "max_tokens"),
                  stream |-> IF "stream" \in DOMAIN request_data
                             THEN request_data.stream ELSE FALSE]]

\* The log_data dict log_response builds from response_data (usage, model
\* and created are not modelled).
ResponseLogData(response_data) ==
    [request_id |-> NoId,
     payload |-> [choices |-> Get(response_data, "choices")]]

\* The record of a LogManager call: the call, the id it was given, the id
\* it returned (log_request) and whether the storage gained a record.
LogCall(op, request_id, ret, wrote) ==
    [op |-> op, request_id |-> request_id, ret |-> ret, wrote |-> wrote]

\* LogManager.log_request: the records and the uuid count it leaves, and
\* the id it returns.
LogRequestOutcome(user_id, session_id, request_data, request_id, ok) ==
    LET id == RequestIdOrUuid(request_id, nextUuid)
    IN [ret |-> id,
        nextUuid |-> IF IdTruthy(request_id) THEN nextUuid ELSE nextUuid + 1,
        records |->
            IF lmStorage = "None" THEN logRecords
            ELSE StorageLogWrite(
                     LogRecord("request", user_id, session_id,
                               RequestLogData(id, request_data), NoId), ok)]

\* LogManager.log_response: the records it leaves.
LogResponseOutcome(user_id, session_id, response_data, request_id, ok) ==
    IF lmStorage = "None" THEN logRecords
    ELSE StorageLogWrite(
             LogRecord("response", user_id, session_id,
                       ResponseLogData(response_data), request_id), ok)

\* LogManager.log_error: the records it leaves.
LogErrorOutcome(user_id, session_id, error_data, ok) ==
    IF lmStorage = "None" THEN logRecords
    ELSE StorageLogWrite(
             LogRecord("error", user_id, session_id,
                       [request_id |-> NoId, payload |-> error_data], NoId), ok)

\* Bounds of the log layer: records the storage holds, uuids drawn.
MaxLogs == 2
MaxUuids == 2

LogUsers == {"a"}
LogSessions == {"c"}
\* The dicts the log layer is driven with.
LogRequestData == [model |-> "qwen-plus", messages |-> <<>>]
LogResponseData == [choices |-> <<>>]
LogErrorData == [error_type |-> "APIError"]
\* The ids a caller passes to log_request.
CallerIds == {NoId, Given(""), Given("r1")}
\* The ids a caller passes to log_response: none, its own, or one that
\* log_request returned.
ResponseIds == {NoId, Given("r1")} \cup {Uuid(n) : n \in 1..nextUuid}

LM_log_request(user_id, session_id, request_data, request_id, ok) ==
    LET o == LogRequestOutcome(user_id, session_id, request_data, request_id, ok)
    IN /\ Len(logRecords) < MaxLogs
       /\ o.nextUuid <= MaxUuids
       /\ logRecords' = o.records
       /\ nextUuid' = o.nextUuid
       /\ lastLog' = LogCall("log_request", request_id, o.ret, o.records # logRecords)
       /\ UNCHANGED <<logConfig, lmStorage, logReady>>
       /\ UNCHANGED <<memVars, clientVars, chatVars>>

LogRequest ==
    \E u \in LogUsers, s \in LogSessions, id \in CallerIds, ok \in BOOLEAN :
        LM_log_request(u, s, LogRequestData, id, ok)

LM_log_response(user_id, session_id, response_data, request_id, ok) ==
    LET records == LogResponseOutcome(user_id, session_id, response_data, request_id, ok)
    IN /\ Len(logRecords) < MaxLogs
       /\ logRecords' = records
       /\ lastLog' = LogCall("log_response", request_id, NoId, records # logRecords)
       /\ UNCHANGED <<logConfig, lmStorage, logReady, nextUuid>>
       /\ UNCHANGED <<memVars, clientVars, chatVars>>

LogResponse ==
    \E u \in LogUsers, s \in LogSessions, id \in ResponseIds, ok \in BOOLEAN :
        LM_log_response(u, s, LogResponseData, id, ok)

LM_log_error(user_id, session_id, error_data, ok) ==
    LET records == LogErrorOutcome(user_id, session_id, error_data, ok)
    IN /\ Len(logRecords) < MaxLogs
       /\ logRecords' = records
       /\ lastLog' = LogCall("log_error", NoId, NoId, records # logRecords)
       /\ UNCHANGED <<logConfig, lmStorage, logReady, nextUuid>>
       /\ UNCHANGED <<memVars, clientVars, chatVars>>

LogError ==
    \E u \in LogUsers, s \in LogSessions, ok \in BOOLEAN :
        LM_log_error(u, s, LogErrorData, ok)

(***************************************************************************)
(* The log layer: a LogManager built from a configuration the factory      *)
(* accepts (logging disabled, a custom storage, or the MongoDB storage),   *)
(* initialized, then driven by any sequence of log calls.                  *)
(***************************************************************************)
LogInitConfigs ==
    {c \in LogConfigs : ~c.enabled \/ c.custom_storage \/ c.storage_type = "mongodb"}

\* The state of a LogManager built from logConfig and initialized.
LogManagerInit ==
    /\ lmStorage = create_log_storage(logConfig)
    /\ logReady \in (IF lmStorage = "mongo" THEN BOOLEAN ELSE {FALSE})
    /\ logRecords = <<>>
    /\ nextUuid = 0
    /\ lastLog = LogCall("none", NoId, NoId, FALSE)

\* A memory layer that is not driven: memory disabled.
MemIdle ==
    /\ memConfig = [enabled |-> FALSE, storage_type |-> "mongodb",
                    max_history_length |-> 0, custom_storage |-> FALSE]
    /\ ttlCache = FALSE
    /\ MemoryManagerInit

LogInit ==
    /\ logConfig \in LogInitConfigs
    /\ LogManagerInit
    /\ MemIdle
    /\ ClientIdle
    /\ ChatIdle

LogNext == LogRequest \/ LogResponse \/ LogError

SpecLog == LogInit /\ [][LogNext]_vars

(***************************************************************************)
(* QianwenClient.initialize(): the MemoryManager is built and initialized  *)
(* if memory is enabled, then the LogManager if logging is enabled.  An    *)
(* exception of the storage factory leaves initialize() at that point.     *)
(***************************************************************************)
ClientInitializeMemory ==
    /\ clientPc = "constructed"
    /\ IF ~memConfig.enabled
       THEN /\ clientPc' = "memory_done"
            /\ UNCHANGED <<memory_manager, initError, mmStorage, mmLocalCache,
                           mongoReady, resources>>
       ELSE IF Raised(create_memory_storage(memConfig))
       THEN /\ clientPc' = "memory_raised"
            /\ initError' = create_memory_storage(memConfig)
            /\ UNCHANGED <<memory_manager, mmStorage, mmLocalCache, mongoReady,
                           resources>>
       ELSE /\ clientPc' = "memory_done"
            /\ memory_manager' = TRUE
            /\ mmStorage' = create_memory_storage(memConfig)
            /\ mmLocalCache' = MemoryManagerLocalCache(memConfig, ttlCache)
            /\ mongoReady' \in (IF mmStorage' = "mongo" THEN BOOLEAN ELSE {FALSE})
            /\ resources' = [resources EXCEPT !.memory = "open"]
            /\ UNCHANGED initError
    /\ UNCHANGED <<memConfig, ttlCache, cacheEntries, collection, nSaved,
                   storageCalls, last, log_manager, faulty>>
    /\ UNCHANGED <<logVars, chatVars>>

ClientInitializeLog ==
    /\ clientPc = "memory_done"
    /\ IF ~logConfig.enabled
       THEN /\ clientPc' = "initialized"
            /\ UNCHANGED <<log_manager, initError, lmStorage, logReady, resources>>
       ELSE IF Raised(create_log_storage(logConfig))
       THEN /\ clientPc' = "log_raised"
            /\ initError' = create_log_storage(logConfig)
            /\ UNCHANGED <<log_manager, lmStorage, logReady, resources>>
       ELSE /\ clientPc' = "initialized"
            /\ log_manager' = TRUE
            /\ lmStorage' = create_log_storage(logConfig)
            /\ logReady' \in (IF lmStorage' = "mongo" THEN BOOLEAN ELSE {FALSE})
            /\ resources' = [resources EXCEPT !.log = "open"]
            /\ UNCHANGED initError
    /\ UNCHANGED <<logConfig, logRecords, nextUuid, lastLog, memory_manager, faulty>>
    /\ UNCHANGED <<memVars, chatVars>>

\* A client constructed from any configuration, its managers not yet built.
ClientInit ==
    /\ memConfig \in MemoryConfigs
    /\ logConfig \in LogConfigs
    /\ ttlCache \in BOOLEAN
    /\ clientPc = "constructed"
    /\ memory_manager = FALSE
    /\ log_manager = FALSE
    /\ initError = ""
    /\ resources = Resources("none", "none", "open")
    /\ faulty = FALSE
    /\ mmStorage = "None"
    /\ mmLocalCache = "None"
    /\ cacheEntries = <<>>
    /\ mongoReady = FALSE
    /\ collection = <<>>
    /\ nSaved = 0
    /\ storageCalls = FALSE
    /\ last = NoCall
    /\ lmStorage = "None"
    /\ logReady = FALSE
    /\ logRecords = <<>>
    /\ nextUuid = 0
    /\ lastLog = LogCall("none", NoId, NoId, FALSE)
    /\ ChatIdle

\* The body of `async with client:` ends, normally or with an exception;
\* either way __aexit__ runs close().
ScopeBody ==
    /\ clientPc = "initialized"
    /\ \E raised \in BOOLEAN : clientPc' = "closing_memory"
    /\ UNCHANGED <<memory_manager, log_manager, initError, resources, faulty>>
    /\ UNCHANGED <<memVars, logVars, chatVars>>

\* One step of close(): it succeeds and close() goes on, or it raises and
\* close(), __aexit__ and the scope end with that exception.
CloseStep(pc, held, closedResources, nextPc) ==
    /\ clientPc = pc
    /\ IF ~held
       THEN clientPc' = nextPc /\ UNCHANGED resources
       ELSE \/ clientPc' = nextPc /\ resources' = closedResources
            \/ clientPc' = "close_raised" /\ UNCHANGED resources
    /\ UNCHANGED <<memory_manager, log_manager, initError, faulty>>
    /\ UNCHANGED <<memVars, logVars, chatVars>>

\* `if self.memory_manager: await self.memory_manager.close()`.
ClientCloseMemory ==
    CloseStep("closing_memory", memory_manager,
              [resources EXCEPT !.memory = "closed"], "closing_log")

\* `if self.log_manager: await self.log_manager.close()`.
ClientCloseLog ==
    CloseStep("closing_log", log_manager,
              [resources EXCEPT !.log = "closed"], "closing_transport")

\* `await self.async_client.close()`.
ClientCloseTransport ==
    CloseStep("closing_transport", TRUE,
              [resources EXCEPT !.transport = "closed"], "closed")

ClientNext ==
    \/ ClientInitializeMemory
    \/ ClientInitializeLog
    \/ ScopeBody
    \/ ClientCloseMemory
    \/ ClientCloseLog
    \/ ClientCloseTransport

SpecClient == ClientInit /\ [][ClientNext]_vars

(***************************************************************************)
(* QianwenChat, the session builder (src/qianwen_client_enhanced.py).      *)
(***************************************************************************)
\* ModelConfig defaults; the temperature is counted in tenths.
DefaultTemperature == 7
DefaultMaxTokens == 2000

\* Bounds of the chat layer: invocations of ask / stream a behaviour makes,
\* chunks of one streamed response.
MaxCalls == 2
MaxChunks == 2

ChatUsers == {"a"}
ChatSessions == {"c"}
\* The texts a caller asks; "42" is a text that is also JSON.
AskTexts == {"hi", "42"}
\* The content fragments of streamed chunks; "" is a chunk without content
\* (no choices, or an empty delta).
Fragments == {"Hel", "lo", ""}
\* The responses chat.completions.create may return to ask, as
\* response.model_dump() gives them: with one choice, or with none.
Responses == {[choices |-> <<Str("ok")>>], [choices |-> <<>>]}

\* QianwenChat.__init__.
QianwenChatInit(user_id, session_id) ==
    [user_id |-> user_id, session_id |-> session_id,
     model |-> "qwen-plus", temperature |-> DefaultTemperature,
     max_tokens |-> DefaultMaxTokens, system_message |-> "",
     search_enabled |-> FALSE, memory_enabled |-> memConfig.enabled]

\* {"role": ..., "content": ...}
Msg(role, content) == [role |-> role, content |-> content]

\* The history part of the message list: one entry per ChatMessage.
HistoryEntries(history) ==
    [i \in DOMAIN history |-> Msg(history[i].role, history[i].content)]

\* QianwenChat._build_messages, given the history it fetched.
BuildMessages(system_message, history, message) ==
    (IF system_message # "" THEN <<Msg("system", Str(system_message))>> ELSE <<>>)
    \o HistoryEntries(history)
    \o <<Msg("user", Str(message))>>

\* The web-search tool descriptor.
WebSearchTools == <<"web_search">>

\* request_params of ask (stream = FALSE) and of stream (stream = TRUE).
RequestParams(c, messages, stream) ==
    [model |-> c.model, messages |-> messages, temperature |-> c.temperature,
     max_tokens |-> c.max_tokens, stream |-> stream,
     tools |-> IF c.search_enabled THEN WebSearchTools ELSE <<>>,
     stream_options |-> FALSE]

\* The history _build_messages fetches: get_history with the configured
\* max_history_length as limit, if memory is enabled for the builder.
BuilderHistoryOutcomes ==
    IF chat.memory_enabled /\ memory_manager
    THEN HistoryOutcomes(chat.user_id, chat.session_id,
                         Some(memConfig.max_history_length))
    ELSE {[ret |-> <<>>, entries |-> cacheEntries, called |-> FALSE]}

\* The structured content image() and video() build: a text part and
\* image_url parts.
MultimodalContents == {List("[img]")}

\* Mutant of BuildMultimodalMessages: the system message is appended after
\* the history instead of inserted in front.
BuildMultimodalMessages_SystemLast(system_message, history, content) ==
    LET messages == HistoryEntries(history)
        inserted == IF system_message # ""
                    THEN Append(messages, Msg("system", Str(system_message)))
                    ELSE messages
    IN Append(inserted, Msg("user", content))

\* _multimodal_request: the history entries first, then
\* messages.insert(0, system), then the content as the user message.
BuildMultimodalMessages(system_message, history, content) ==
    LET messages == HistoryEntries(history)
        inserted == IF system_message # ""
                    THEN <<Msg("system", Str(system_message))>> \o messages
                    ELSE messages
    IN Append(inserted, Msg("user", content))

\* request_params of _multimodal_request: no stream flag, no tools.
MultimodalRequestParams(c, messages) ==
    [model |-> c.model, messages |-> messages, temperature |-> c.temperature,
     max_tokens |-> c.max_tokens, stream |-> FALSE, tools |-> <<>>,
     stream_options |-> FALSE]

\* The request the invocation assembles from the history it fetched.
AssembledRequest(kind, c, history, message, content) ==
    IF kind = "multimodal"
    THEN MultimodalRequestParams(c,
             BuildMultimodalMessages(c.system_message, history, content))
    ELSE RequestParams(c, BuildMessages(c.system_message, history, message),
                       kind = "stream")

\* Whether an operation of a storage works: always, unless the storages
\* are faulty.
OkChoices == IF faulty THEN BOOLEAN ELSE {TRUE}

\* Mutant of ManagerRaises: the exception of the storage is passed on.
ManagerRaises_Propagates(storageFailed) == storageFailed

\* Whether a method of MemoryManager or LogManager raises when the storage
\* operation it awaits failed: every one of them catches Exception.
ManagerRaises(storageFailed) == FALSE

\* The invocation record: kind is "ask", "stream" or "multimodal"; pc is
\* the step it is at; message is the text asked and content the content of
\* the user message; history is what get_history returned; before is the
\* number of stored documents when the invocation started; events lists
\* the manager methods called and the outcomes of the API calls, sent the
\* requests handed to chat.completions.create; outcome is "" while it
\* runs, then "returned", "closed" or the exception raised.
NewCall(kind, message, content, history, request, events) ==
    [kind |-> kind, pc |-> "log_request", message |-> message,
     history |-> history, request |-> request, request_id |-> NoId,
     response |-> [choices |-> <<>>], yielded |-> <<>>,
     full_content |-> "", before |-> Len(collection), error |-> "",
     outcome |-> "", content |-> content, events |-> events, sent |-> <<>>,
     key |-> <<chat.user_id, chat.session_id>>]

\* Mutant of Except: the exception is dropped and the invocation returns.
Except_Returns(c, e) == [c EXCEPT !.error = e, !.pc = "done", !.outcome = "returned"]

\* The invocation goes to its except branch with exception e.
Except(c, e) == [c EXCEPT !.error = e, !.pc = "except"]

\* ask and _multimodal_request share their steps after the assembly.
AskLike == call.kind \in {"ask", "multimodal"}

Idle == call.pc = "done"

\* QianwenChat.memory(enabled).
ChatMemory(enabled) ==
    /\ Idle
    /\ chat' = [chat EXCEPT !.memory_enabled = enabled]
    /\ UNCHANGED <<call, nCalls, peer>>
    /\ UNCHANGED <<memVars, logVars, clientVars>>

Memory == \E enabled \in BOOLEAN : chat.memory_enabled # enabled /\ ChatMemory(enabled)

\* Python's min(a, b) and max(a, b) of two arguments: the first argument
\* unless the second is strictly smaller (larger).
PyMin(a, b) == IF b < a THEN b ELSE a
\* Mutant of PyMax: the smaller of the two.
PyMax_Min(a, b) == IF b < a THEN b ELSE a
PyMax(a, b) == IF b > a THEN b ELSE a

\* 0.0 and 1.0 in tenths, and the least max_tokens.
MinTemperature == 0
MaxTemperature == 10
MinTokens == 1

\* The arguments the mutators are called with (temperatures in tenths:
\* -0.5, 0.0, 0.4, 1.0, 1.7).
ModelNames == {"qwen-plus", "qwen-max"}
TemperatureInputs == {-5, 0, 4, 10, 17}
TokenInputs == {-1, 0, 1, 5}
SystemMessages == {"", "sys"}

\* Mutant of Mutate: the memory toggle is reset to the configured value
\* whenever a parameter is set.
Mutate_ResetsMemory(newChat) ==
    /\ call.pc = "done"
    /\ chat' = [newChat EXCEPT !.memory_enabled = memConfig.enabled]
    /\ UNCHANGED <<call, nCalls, peer>>
    /\ UNCHANGED <<memVars, logVars, clientVars>>

\* A mutator: it sets one parameter and returns the builder.
Mutate(newChat) ==
    /\ Idle
    /\ chat' = newChat
    /\ UNCHANGED <<call, nCalls, peer>>
    /\ UNCHANGED <<memVars, logVars, clientVars>>

\* QianwenChat.model(model_name).
ChatModel(model_name) == Mutate([chat EXCEPT !.model = model_name])
Model == \E model_name \in ModelNames : ChatModel(model_name)

\* QianwenChat.temperature(temp): max(0.0, min(1.0, temp)).
ChatTemperature(temp) ==
    Mutate([chat EXCEPT !.temperature = PyMax(MinTemperature, PyMin(MaxTemperature, temp))])
Temperature == \E temp \in TemperatureInputs : ChatTemperature(temp)

\* QianwenChat.max_tokens(tokens): max(1, tokens).
ChatMaxTokens(tokens) ==
    Mutate([chat EXCEPT !.max_tokens = PyMax(MinTokens, tokens)])
MaxTokens == \E tokens \in TokenInputs : ChatMaxTokens(tokens)

\* QianwenChat.system(message).
ChatSystem(message) == Mutate([chat EXCEPT !.system_message = message])
System == \E message \in SystemMessages : ChatSystem(message)

\* QianwenChat.search(enabled).
ChatSearch(enabled) == Mutate([chat EXCEPT !.search_enabled = enabled])
Search == \E enabled \in BOOLEAN : ChatSearch(enabled)

\* QianwenChat.user(user_id) and QianwenChat.session(session_id).
ChatUser(user_id) == Mutate([chat EXCEPT !.user_id = user_id])
User == \E user_id \in Users : ChatUser(user_id)
ChatSession(session_id) == Mutate([chat EXCEPT !.session_id = session_id])
Session == \E session_id \in Sessions : ChatSession(session_id)

\* `**kwargs` merged into request_params after the builder's parameters:
\* a key of kwargs replaces the builder's value (keys other than tools,
\* which the search toggle sets afterwards).
NoKwargs == <<>>
WithKwargs(request, kwargs) ==
    [k \in DOMAIN request |-> IF k \in DOMAIN kwargs THEN kwargs[k] ELSE request[k]]

\* ask / stream up to the first await after the message list is built:
\* _build_messages (with its get_history) and request_params.
\* A failed get_history leaves the cache alone and gives no messages.
StartCallWith(kind, message, content, kwargs) ==
    /\ Idle
    /\ nCalls < MaxCalls
    /\ nCalls' = nCalls + 1
    /\ \E o \in BuilderHistoryOutcomes, ok \in OkChoices :
          LET history == IF ok THEN o.ret ELSE <<>>
              events == IF chat.memory_enabled /\ memory_manager
                        THEN <<"get_history">> ELSE <<>>
              new == NewCall(kind, message, content, history,
                             WithKwargs(AssembledRequest(kind, chat, history,
                                                         message, content), kwargs),
                             events)
          IN /\ cacheEntries' = (IF ok THEN o.entries ELSE cacheEntries)
             /\ storageCalls' = (storageCalls \/ o.called)
             /\ call' = IF events # <<>> /\ ManagerRaises(~ok)
                        THEN Except(new, "StorageError") ELSE new
    /\ UNCHANGED <<memConfig, ttlCache, mmStorage, mmLocalCache, mongoReady,
                   collection, nSaved, last, chat, peer>>
    /\ UNCHANGED <<logVars, clientVars>>

\* An invocation without extra keyword arguments.
StartCall(kind, message, content) == StartCallWith(kind, message, content, NoKwargs)

ChatStart(kind, message) == StartCall(kind, message, Str(message))

AskStart == \E message \in AskTexts : ChatStart("ask", message)
StreamStart == \E message \in AskTexts : ChatStart("stream", message)

\* image() and video(): _multimodal_request with the content they built.
MultimodalStart ==
    \E message \in AskTexts, content \in MultimodalContents :
        StartCall("multimodal", message, content)

\* `if self.client.log_manager: request_id = await ...log_request(...)`.
ChatLogRequest ==
    /\ call.pc = "log_request"
    /\ IF log_manager
       THEN \E ok \in OkChoices :
               LET o == LogRequestOutcome(chat.user_id, chat.session_id,
                                          call.request, NoId, ok)
                   c == [call EXCEPT !.events = Append(@, "log_request")]
               IN /\ logRecords' = o.records
                  /\ nextUuid' = o.nextUuid
                  /\ call' = IF ManagerRaises(~ok) THEN Except(c, "StorageError")
                             ELSE [c EXCEPT !.request_id = o.ret, !.pc = "api"]
       ELSE /\ call' = [call EXCEPT !.pc = "api"]
            /\ UNCHANGED <<logRecords, nextUuid>>
    /\ UNCHANGED <<logConfig, lmStorage, logReady, lastLog, chat, nCalls, peer>>
    /\ UNCHANGED <<memVars, clientVars>>

\* The frame of a step that only moves the invocation on.
ChatStepOnly ==
    /\ UNCHANGED <<chat, nCalls, peer>>
    /\ UNCHANGED <<memVars, logVars, clientVars>>

\* The frame of a step that saves a message.
ChatSaveFrame ==
    /\ UNCHANGED <<memConfig, ttlCache, mmStorage, mmLocalCache, mongoReady,
                   nSaved, last, chat, nCalls, peer>>
    /\ UNCHANGED <<logVars, clientVars>>

\* The frame of a step that writes the log.
ChatLogFrame ==
    /\ UNCHANGED <<logConfig, lmStorage, logReady, nextUuid, lastLog, chat, nCalls, peer>>
    /\ UNCHANGED <<memVars, clientVars>>

\* The exceptions chat.completions.create raises.
ApiErrors == {"APIError", "TypeError"}

\* The invocation after it handed its request to chat.completions.create
\* with the given outcome.
Sent(c, outcome) ==
    [c EXCEPT !.sent = Append(@, c.request), !.events = Append(@, outcome)]

\* ask, _multimodal_request: chat.completions.create returns, or raises.
AskApi ==
    /\ AskLike /\ call.pc = "api"
    /\ \/ \E r \in Responses :
             call' = [Sent(call, "api_ok") EXCEPT !.response = r,
                                                  !.pc = "log_response"]
       \/ \E e \in ApiErrors : call' = Except(Sent(call, e), e)
    /\ ChatStepOnly

\* Mutant of AfterAskLogResponse: the save of the user message is skipped.
AfterAskLogResponse_SkipUser ==
    IF chat.memory_enabled /\ memory_manager
    THEN (IF call.response.choices # <<>> THEN "save_assistant" ELSE "return")
    ELSE "return"

\* Mutant of AfterAskLogResponse: the builder's memory toggle is not
\* consulted before the saves.
AfterAskLogResponse_ToggleIgnored ==
    IF memory_manager THEN "save_user" ELSE "return"

\* The step after the response is logged (ask) .
AfterAskLogResponse ==
    IF chat.memory_enabled /\ memory_manager THEN "save_user" ELSE "return"

\* ask: `if self.client.log_manager: await ...log_response(...)`.
AskLogResponse ==
    /\ AskLike /\ call.pc = "log_response"
    /\ IF log_manager
       THEN \E ok \in OkChoices :
               LET c == [call EXCEPT !.events = Append(@, "log_response")]
               IN /\ logRecords' = LogResponseOutcome(chat.user_id, chat.session_id,
                                                      call.response, call.request_id, ok)
                  /\ call' = IF ManagerRaises(~ok) THEN Except(c, "StorageError")
                             ELSE [c EXCEPT !.pc = AfterAskLogResponse]
       ELSE /\ call' = [call EXCEPT !.pc = AfterAskLogResponse]
            /\ UNCHANGED logRecords
    /\ ChatLogFrame

\* save_message(ChatMessage(role, content, user_id, session_id)) as the
\* builder calls it.
ChatSave(role, content, nextPc) ==
    \E ts \in Times, dbNow \in Times, ok \in OkChoices :
        LET o == SaveOutcome(ChatMessage(role, content, ts, chat.user_id,
                                         chat.session_id, EmptyMetadata), dbNow)
            c == [call EXCEPT !.events = Append(@, "save_" \o role)]
        IN /\ collection' = (IF ok THEN o.collection ELSE collection)
           /\ cacheEntries' = (IF ok THEN o.entries ELSE cacheEntries)
           /\ storageCalls' = (storageCalls \/ o.called)
           /\ call' = IF ManagerRaises(~ok) THEN Except(c, "StorageError")
                      ELSE [c EXCEPT !.pc = nextPc]
           /\ ChatSaveFrame

\* ask: the user message is saved.
AskSaveUser ==
    /\ AskLike /\ call.pc = "save_user"
    /\ ChatSave("user", call.content,
                IF call.response.choices # <<>> THEN "save_assistant" ELSE "return")

\* ask: the assistant's reply, choices[0].message.content, is saved.
AskSaveAssistant ==
    /\ AskLike /\ call.pc = "save_assistant"
    /\ ChatSave("assistant", call.response.choices[1], "return")

\* Mutant of AskReturn: the builder is consumed by the exchange.
AskReturn_Consumed ==
    /\ AskLike /\ call.pc = "return"
    /\ call' = [call EXCEPT !.pc = "consumed", !.outcome = "returned"]
    /\ ChatStepOnly

\* ask: `return response_dict`.
AskReturn ==
    /\ AskLike /\ call.pc = "return"
    /\ call' = [call EXCEPT !.pc = "done", !.outcome = "returned"]
    /\ ChatStepOnly

\* Mutant of ChatExcept: QianwenAPIError is raised without log_error.
ChatExcept_Silent ==
    /\ call.pc = "except"
    /\ call' = [call EXCEPT !.pc = "done", !.outcome = "QianwenAPIError"]
    /\ UNCHANGED logRecords
    /\ ChatLogFrame

\* The except branch of ask and of stream: log_error, then QianwenAPIError.
ChatExcept ==
    /\ call.pc = "except"
    /\ IF log_manager
       THEN \E ok \in OkChoices :
               /\ logRecords' = LogErrorOutcome(chat.user_id, chat.session_id,
                                                [error_type |-> call.error,
                                                 request_params |-> call.request], ok)
               /\ call' = [call EXCEPT !.events = Append(@, "log_error"),
                                       !.pc = "done",
                                       !.outcome = IF ManagerRaises(~ok)
                                                   THEN "StorageError"
                                                   ELSE "QianwenAPIError"]
       ELSE /\ call' = [call EXCEPT !.pc = "done", !.outcome = "QianwenAPIError"]
            /\ UNCHANGED logRecords
    /\ ChatLogFrame

\* Mutant of Accumulate: the fragment is put in front.
Accumulate_Prepend(full_content, content) ==
    IF content # "" THEN content \o full_content ELSE full_content

\* `if chunk.choices and chunk.choices[0].delta.content:
\*      full_content += chunk.choices[0].delta.content`
Accumulate(full_content, content) ==
    IF content # "" THEN full_content \o content ELSE full_content

\* request_params["stream_options"] = {"include_usage": True}
WithStreamOptions(request) == [request EXCEPT !.stream_options = TRUE]

\* Mutant of WithoutStreamOptions: the stream flag is dropped as well.
WithoutStreamOptions_NoStream(request) ==
    [request EXCEPT !.stream_options = FALSE, !.stream = FALSE]

\* request_params.pop("stream_options", None)
WithoutStreamOptions(request) == [request EXCEPT !.stream_options = FALSE]

\* stream: chat.completions.create with stream_options returns the stream,
\* raises TypeError (the call is then repeated without stream_options), or
\* raises another error.
StreamApi ==
    /\ call.kind = "stream" /\ call.pc = "api"
    /\ LET c == [call EXCEPT !.request = WithStreamOptions(@)]
       IN \/ call' = [Sent(c, "api_ok") EXCEPT !.pc = "iterate"]
          \/ call' = [Sent(c, "TypeError") EXCEPT !.pc = "api_retry"]
          \/ call' = Except(Sent(c, "APIError"), "APIError")
    /\ ChatStepOnly

\* stream: the call repeated without stream_options.
StreamApiRetry ==
    /\ call.kind = "stream" /\ call.pc = "api_retry"
    /\ LET c == [call EXCEPT !.request = WithoutStreamOptions(@)]
       IN \/ call' = [Sent(c, "api_ok") EXCEPT !.pc = "iterate"]
          \/ \E e \in ApiErrors : call' = Except(Sent(c, e), e)
    /\ ChatStepOnly

\* stream: the response delivers a chunk, `yield chunk`; the generator is
\* suspended until the consumer asks for the next chunk.
StreamYield ==
    /\ call.kind = "stream" /\ call.pc = "iterate"
    /\ Len(call.yielded) < MaxChunks
    /\ \E content \in Fragments :
          call' = [call EXCEPT !.yielded = Append(@, content), !.pc = "yielded"]
    /\ ChatStepOnly

\* stream: the consumer resumes the generator, the chunk's content is
\* collected.
StreamResume ==
    /\ call.kind = "stream" /\ call.pc = "yielded"
    /\ call' = [call EXCEPT
                  !.full_content = Accumulate(@, call.yielded[Len(call.yielded)]),
                  !.pc = "iterate"]
    /\ ChatStepOnly

\* stream: the consumer closes the generator instead of resuming it;
\* GeneratorExit is not an Exception, the except branch does not run.
StreamClose ==
    /\ call.kind = "stream" /\ call.pc = "yielded"
    /\ call' = [call EXCEPT !.pc = "done", !.outcome = "closed"]
    /\ ChatStepOnly

\* stream: the iteration over the response raises.
StreamFail ==
    /\ call.kind = "stream" /\ call.pc = "iterate"
    /\ call' = Except([call EXCEPT !.events = Append(@, "iteration_error")], "APIError")
    /\ ChatStepOnly

\* stream: the response is exhausted;
\* `if self._memory_enabled and self.client.memory_manager and full_content:`.
StreamEnd ==
    /\ call.kind = "stream" /\ call.pc = "iterate"
    /\ call' = [call EXCEPT !.pc =
                  IF chat.memory_enabled /\ memory_manager /\ call.full_content # ""
                  THEN "save_user" ELSE "log_response"]
    /\ ChatStepOnly

\* stream: the user message is saved.
StreamSaveUser ==
    /\ call.kind = "stream" /\ call.pc = "save_user"
    /\ ChatSave("user", call.content, "save_assistant")

\* stream: the collected content is saved as the assistant's reply.
StreamSaveAssistant ==
    /\ call.kind = "stream" /\ call.pc = "save_assistant"
    /\ ChatSave("assistant", Str(call.full_content), "log_response")

\* stream: log_response({"content": full_content, "stream": True}); the
\* generator then finishes.
StreamLogResponse ==
    /\ call.kind = "stream" /\ call.pc = "log_response"
    /\ IF log_manager
       THEN \E ok \in OkChoices :
               LET c == [call EXCEPT !.events = Append(@, "log_response")]
               IN /\ logRecords' = LogResponseOutcome(chat.user_id, chat.session_id,
                                                      [content |-> call.full_content,
                                                       stream |-> TRUE],
                                                      call.request_id, ok)
                  /\ call' = IF ManagerRaises(~ok) THEN Except(c, "StorageError")
                             ELSE [c EXCEPT !.pc = "done", !.outcome = "returned"]
       ELSE /\ call' = [call EXCEPT !.pc = "done", !.outcome = "returned"]
            /\ UNCHANGED logRecords
    /\ ChatLogFrame

(***************************************************************************)
(* The chat layer: an initialized client (memory disabled or on MongoDB,   *)
(* logging disabled or on MongoDB), one builder obtained from chat(), and  *)
(* any sequence of memory(), ask() and stream() calls on it, each awaited  *)
(* before the next is made.                                                *)
(***************************************************************************)
ChatMemConfigs ==
    {c \in MemoryConfigs : /\ c.storage_type = "mongodb"
                           /\ ~c.custom_storage
                           /\ (c.enabled \/ c.max_history_length = 0)}

ChatLogConfigs ==
    {c \in LogConfigs : /\ c.storage_type = "mongodb"
                        /\ ~c.custom_storage
                        /\ c.log_requests /\ c.log_responses /\ c.log_errors}

ChatInit ==
    /\ memConfig \in ChatMemConfigs
    /\ ttlCache \in BOOLEAN
    /\ MemoryManagerInit
    /\ logConfig \in ChatLogConfigs
    /\ LogManagerInit
    /\ clientPc = "initialized"
    /\ memory_manager = memConfig.enabled
    /\ log_manager = logConfig.enabled
    /\ initError = ""
    /\ resources = Resources(IF memory_manager THEN "open" ELSE "none",
                             IF log_manager THEN "open" ELSE "none", "open")
    /\ faulty = FALSE
    /\ \E u \in ChatUsers, s \in ChatSessions : chat = QianwenChatInit(u, s)
    /\ call = NoChatCall
    /\ nCalls = 0
    /\ peer = NoPeer

ChatNext ==
    \/ Memory
    \/ AskStart
    \/ StreamStart
    \/ ChatLogRequest
    \/ AskApi
    \/ AskLogResponse
    \/ AskSaveUser
    \/ AskSaveAssistant
    \/ AskReturn
    \/ ChatExcept
    \/ StreamApi
    \/ StreamApiRetry
    \/ StreamYield
    \/ StreamResume
    \/ StreamClose
    \/ StreamFail
    \/ StreamEnd
    \/ StreamSaveUser
    \/ StreamSaveAssistant
    \/ StreamLogResponse

SpecChat == ChatInit /\ [][ChatNext]_vars

(***************************************************************************)
(* One turn: the last invocation the bound allows, of ask, stream or a     *)
(* multimodal request, on a builder with any system message, search and    *)
(* memory toggles, over a session that may hold messages stored by         *)
(* earlier invocations, with storages whose operations may fail.           *)
(***************************************************************************)
\* What earlier invocations may have stored for the builder's session.
PriorCollections ==
    {<<>>,
     <<MongoDocument("a", "c", "user", Str("hi"), EmptyMetadata, 0),
       MongoDocument("a", "c", "assistant", Str("ok"), EmptyMetadata, 0),
       MongoDocument("a", "c", "user", Str("42"), EmptyMetadata, MaxClock)>>}

TurnInit ==
    /\ memConfig \in ChatMemConfigs
    /\ ttlCache = TRUE
    /\ mmStorage = create_memory_storage(memConfig)
    /\ mmLocalCache = MemoryManagerLocalCache(memConfig, ttlCache)
    /\ cacheEntries = <<>>
    /\ mongoReady = (mmStorage = "mongo")
    /\ collection \in (IF mongoReady THEN PriorCollections ELSE {<<>>})
    /\ nSaved = 0
    /\ storageCalls = FALSE
    /\ last = NoCall
    /\ logConfig \in ChatLogConfigs
    /\ lmStorage = create_log_storage(logConfig)
    /\ logReady = (lmStorage = "mongo")
    /\ logRecords = <<>>
    /\ nextUuid = 0
    /\ lastLog = LogCall("none", NoId, NoId, FALSE)
    /\ clientPc = "initialized"
    /\ memory_manager = memConfig.enabled
    /\ log_manager = logConfig.enabled
    /\ initError = ""
    /\ resources = Resources(IF memory_manager THEN "open" ELSE "none",
                             IF log_manager THEN "open" ELSE "none", "open")
    /\ faulty \in BOOLEAN
    /\ \E u \in ChatUsers, s \in ChatSessions : chat = QianwenChatInit(u, s)
    /\ call = NoChatCall
    /\ nCalls = MaxCalls - 1
    /\ peer = NoPeer

TurnNext ==
    \/ ChatNext
    \/ MultimodalStart
    \/ System
    \/ Search

SpecTurn == TurnInit /\ [][TurnNext]_vars

(***************************************************************************)
(* Reuse: one builder on an initialized client with reliable storages,     *)
(* any sequence of ask, stream and multimodal invocations with mutator     *)
(* calls between them.                                                     *)
(***************************************************************************)
ReuseInit ==
    /\ memConfig \in {c \in ChatMemConfigs :
                         c.enabled => c.max_history_length = MaxHist}
    /\ ttlCache = TRUE
    /\ mmStorage = create_memory_storage(memConfig)
    /\ mmLocalCache = MemoryManagerLocalCache(memConfig, ttlCache)
    /\ cacheEntries = <<>>
    /\ mongoReady = (mmStorage = "mongo")
    /\ collection = <<>>
    /\ nSaved = 0
    /\ storageCalls = FALSE
    /\ last = NoCall
    /\ logConfig \in ChatLogConfigs
    /\ lmStorage = create_log_storage(logConfig)
    /\ logReady = (lmStorage = "mongo")
    /\ logRecords = <<>>
    /\ nextUuid = 0
    /\ lastLog = LogCall("none", NoId, NoId, FALSE)
    /\ clientPc = "initialized"
    /\ memory_manager = memConfig.enabled
    /\ log_manager = logConfig.enabled
    /\ initError = ""
    /\ resources = Resources(IF memory_manager THEN "open" ELSE "none",
                             IF log_manager THEN "open" ELSE "none", "open")
    /\ faulty = FALSE
    /\ \E u \in ChatUsers, s \in ChatSessions : chat = QianwenChatInit(u, s)
    /\ call = NoChatCall
    /\ nCalls = 0
    /\ peer = NoPeer

ReuseNext ==
    \/ ChatNext
    \/ MultimodalStart
    \/ Search

SpecReuse == ReuseInit /\ [][ReuseNext]_vars

(***************************************************************************)
(* Requests under any model configuration: the client's ModelConfig        *)
(* defaults are whatever the configuration (or the environment, through    *)
(* from_env) gives, the temperature and max_tokens mutators are called in  *)
(* any order, and ask may be given extra keyword arguments; each           *)
(* invocation is followed up to its outbound API call.                     *)
(***************************************************************************)
\* default_temperature (in tenths) and default_max_tokens of ModelConfig:
\* the dataclass defaults, and values a configuration or the environment
\* variables QIANWEN_DEFAULT_TEMPERATURE / QIANWEN_DEFAULT_MAX_TOKENS set.
ConfigTemperatures == {DefaultTemperature, 17}
ConfigMaxTokens == {DefaultMaxTokens, 0}

\* The extra keyword arguments ask is called with.
AskKwargs == {NoKwargs, [temperature |-> 17], [max_tokens |-> 0]}

\* QianwenChat.__init__ on a client with the given ModelConfig defaults.
QianwenChatOf(user_id, session_id, default_temperature, default_max_tokens) ==
    [QianwenChatInit(user_id, session_id) EXCEPT
        !.temperature = default_temperature, !.max_tokens = default_max_tokens]

\* ask(message, **kwargs).
AskStartWith ==
    \E message \in AskTexts, kwargs \in AskKwargs :
        StartCallWith("ask", message, Str(message), kwargs)

RequestInit ==
    /\ memConfig \in {c \in ChatMemConfigs : ~c.enabled}
    /\ ttlCache = TRUE
    /\ mmStorage = create_memory_storage(memConfig)
    /\ mmLocalCache = MemoryManagerLocalCache(memConfig, ttlCache)
    /\ cacheEntries = <<>>
    /\ mongoReady = (mmStorage = "mongo")
    /\ collection = <<>>
    /\ nSaved = 0
    /\ storageCalls = FALSE
    /\ last = NoCall
    /\ logConfig \in ChatLogConfigs
    /\ lmStorage = create_log_storage(logConfig)
    /\ logReady = (lmStorage = "mongo")
    /\ logRecords = <<>>
    /\ nextUuid = 0
    /\ lastLog = LogCall("none", NoId, NoId, FALSE)
    /\ clientPc = "initialized"
    /\ memory_manager = memConfig.enabled
    /\ log_manager = logConfig.enabled
    /\ initError = ""
    /\ resources = Resources(IF memory_manager THEN "open" ELSE "none",
                             IF log_manager THEN "open" ELSE "none", "open")
    /\ faulty = FALSE
    /\ \E u \in ChatUsers, s \in ChatSessions,
          t \in ConfigTemperatures, n \in ConfigMaxTokens :
          chat = QianwenChatOf(u, s, t, n)
    /\ call = NoChatCall
    /\ nCalls = MaxCalls - 1
    /\ peer = NoPeer

RequestNext ==
    \/ Temperature
    \/ MaxTokens
    \/ AskStartWith
    \/ StreamStart
    \/ MultimodalStart
    \/ ChatLogRequest
    \/ AskApi
    \/ StreamApi
    \/ StreamApiRetry

SpecRequest == RequestInit /\ [][RequestNext]_vars

(***************************************************************************)
(* Rebinding in flight: one ask on a client with memory and logging, run   *)
(* as a task; while it is suspended at one of its awaits the host calls    *)
(* user() or session() on the same builder.                                *)
(***************************************************************************)
\* user(user_id) called while the invocation is suspended.
RebindUser ==
    /\ ~Idle
    /\ \E user_id \in Users : chat' = [chat EXCEPT !.user_id = user_id]
    /\ UNCHANGED <<call, nCalls, peer>>
    /\ UNCHANGED <<memVars, logVars, clientVars>>

\* session(session_id) called while the invocation is suspended.
RebindSession ==
    /\ ~Idle
    /\ \E session_id \in Sessions : chat' = [chat EXCEPT !.session_id = session_id]
    /\ UNCHANGED <<call, nCalls, peer>>
    /\ UNCHANGED <<memVars, logVars, clientVars>>

RebindInit == TurnInit /\ ~faulty /\ memConfig.enabled /\ logConfig.enabled

RebindNext ==
    \/ AskStart
    \/ ChatLogRequest
    \/ AskApi
    \/ AskLogResponse
    \/ AskSaveUser
    \/ AskSaveAssistant
    \/ AskReturn
    \/ ChatExcept
    \/ RebindUser
    \/ RebindSession

SpecRebind == RebindInit /\ [][RebindNext]_vars

(***************************************************************************)
(* Two builders: one client with memory on MongoDB, with or without        *)
(* logging, and two builders bound to different session keys, each         *)
(* running ask as a task of the one event loop.  The running task is       *)
(* (chat, call); the other one waits in `peer` and the loop may switch to  *)
(* it at every await, that is between any two steps.  The first builder    *)
(* asks "hi", the second "42"; each session holds one earlier message of   *)
(* its own.                                                                *)
(***************************************************************************)
\* The session keys of the two builders.
FirstKey == <<"a", "c">>
SecondKeys == {<<"a:b", "c">>, <<"a", "b:c">>, <<"a:b", "b:c">>}

\* The message stored for a session before the two asks, and the text the
\* builder of the session asks.
OldText(key) == IF key = FirstKey THEN "old1" ELSE "old2"
AskText(key) == IF key = FirstKey THEN "hi" ELSE "42"

\* The event loop suspends the running task at its await and resumes the
\* other one.
Switch ==
    /\ chat' = peer.chat
    /\ call' = peer.call
    /\ peer' = [chat |-> chat, call |-> call]
    /\ UNCHANGED nCalls
    /\ UNCHANGED <<memVars, logVars, clientVars>>

\* The one ask(text) of the running builder, with the text of its session.
PairAskStart ==
    /\ call.kind = "none"
    /\ ChatStart("ask", AskText(<<chat.user_id, chat.session_id>>))

PairInit ==
    /\ memConfig \in {c \in ChatMemConfigs : c.enabled /\ c.max_history_length = MaxHist}
    /\ ttlCache = TRUE
    /\ mmStorage = create_memory_storage(memConfig)
    /\ mmLocalCache = MemoryManagerLocalCache(memConfig, ttlCache)
    /\ cacheEntries = <<>>
    /\ mongoReady = TRUE
    /\ nSaved = 0
    /\ storageCalls = FALSE
    /\ last = NoCall
    /\ logConfig \in ChatLogConfigs
    /\ lmStorage = create_log_storage(logConfig)
    /\ logReady = (lmStorage = "mongo")
    /\ logRecords = <<>>
    /\ nextUuid = 0
    /\ lastLog = LogCall("none", NoId, NoId, FALSE)
    /\ clientPc = "initialized"
    /\ memory_manager = TRUE
    /\ log_manager = logConfig.enabled
    /\ initError = ""
    /\ resources = Resources("open", IF log_manager THEN "open" ELSE "none", "open")
    /\ faulty = FALSE
    /\ chat = QianwenChatInit(FirstKey[1], FirstKey[2])
    /\ call = NoChatCall
    /\ nCalls = 0
    /\ \E k \in SecondKeys :
          /\ peer = [chat |-> QianwenChatInit(k[1], k[2]), call |-> NoChatCall]
          /\ collection =
                <<MongoDocument(k[1], k[2], "user", Str(OldText(k)), EmptyMetadata, 0),
                  MongoDocument(FirstKey[1], FirstKey[2], "user",
                                Str(OldText(FirstKey)), EmptyMetadata, 0)>>

PairNext ==
    \/ PairAskStart
    \/ ChatLogRequest
    \/ AskApi
    \/ AskLogResponse
    \/ AskSaveUser
    \/ AskSaveAssistant
    \/ AskReturn
    \/ ChatExcept
    \/ Switch

SpecPair == PairInit /\ [][PairNext]_vars

(***************************************************************************)
(* The builder alone: the mutators of one QianwenChat, in any order.       *)
(***************************************************************************)
BuilderNext ==
    \/ Model
    \/ Temperature
    \/ MaxTokens
    \/ System
    \/ Search
    \/ Memory
    \/ User
    \/ Session

SpecBuilder == ChatInit /\ [][BuilderNext]_vars

(***************************************************************************)
(* Properties of the memory layer.                                         *)
(***************************************************************************)
\* The stored documents of one session key, in insertion order.
RECURSIVE StoredFor(_, _, _)
StoredFor(coll, user_id, session_id) ==
    IF coll = <<>> THEN <<>>
    ELSE LET rest == StoredFor(Tail(coll), user_id, session_id)
         IN IF Head(coll).user_id = user_id /\ Head(coll).session_id = session_id
            THEN <<Head(coll)>> \o rest
            ELSE rest

\* The cache entry get_history would find for a session key, if any.
CacheEntryFor(entries, user_id, session_id) ==
    IF CacheKey(user_id, session_id) \in DOMAIN entries
    THEN <<entries[CacheKey(user_id, session_id)]>>
    ELSE <<>>

TimestampsAscend(messages) ==
    \A i, j \in DOMAIN messages : i < j => messages[i].timestamp <= messages[j].timestamp

\* C1: a history read for a session key returns only messages that were
\* saved under that very key (every message carries, as metadata, the key it
\* was saved under), also for keys whose cache keys coincide.
C1_SessionIsolation ==
    last.op = "history" =>
        \A i \in DOMAIN last.ret :
            last.ret[i].metadata = Tag(last.user_id, last.session_id)

\* C1 witness: a non-empty history read for one key while the collection
\* holds a message of a different key with the same cache key.
C1_Witness ==
    /\ last.op = "history"
    /\ last.ret # <<>>
    /\ mmLocalCache = "TTLCache"
    /\ \E i \in DOMAIN collection :
          /\ <<collection[i].user_id, collection[i].session_id>>
                 # <<last.user_id, last.session_id>>
          /\ CacheKey(collection[i].user_id, collection[i].session_id)
                 = CacheKey(last.user_id, last.session_id)

\* The effective limit as the claim C3 states it: the explicit argument if
\* one is given, the configured max_history_length otherwise.
C3_ClaimedLimit(limit) ==
    IF limit # NoLimit THEN limit[1] ELSE memConfig.max_history_length

\* C3 as stated: every history read is in non-decreasing timestamp order and
\* no longer than the explicit limit if given, else max_history_length.
C3_Original ==
    last.op = "history" =>
        /\ TimestampsAscend(last.ret)
        /\ Len(last.ret) <= C3_ClaimedLimit(last.limit)

\* C3 amended: every history read is in non-decreasing timestamp order; it
\* is no longer than the explicit limit if that is given and not 0, else no
\* longer than max_history_length if that is positive; a limit of 0 and a
\* max_history_length of 0 bound nothing.
C3_HistorySortedAndBounded ==
    last.op = "history" =>
        /\ TimestampsAscend(last.ret)
        /\ Truthy(last.limit) => Len(last.ret) <= last.limit[1]
        /\ (~Truthy(last.limit) /\ memConfig.max_history_length > 0)
               => Len(last.ret) <= memConfig.max_history_length

\* C3 witness: a read truncated by its explicit limit, of a session whose
\* documents were inserted with decreasing timestamps.
C3_Witness ==
    /\ last.op = "history"
    /\ Truthy(last.limit)
    /\ Len(last.ret) = last.limit[1]
    /\ LET found == MongoFind(collection, last.user_id, last.session_id)
       IN /\ Cardinality(found) > Len(last.ret)
          /\ \E i, j \in found : i < j /\ collection[i].timestamp > collection[j].timestamp

C5_ClearFrame ==
    [][last'.op = "clear" =>
          \A u \in Users, s \in Sessions :
              <<u, s>> # <<last'.user_id, last'.session_id>> =>
                  /\ StoredFor(collection', u, s) = StoredFor(collection, u, s)
                  /\ CacheEntryFor(cacheEntries', u, s) = CacheEntryFor(cacheEntries, u, s)]_vars

\* C5 witness: a clear removed messages while another session's remain.
C5_Witness ==
    last.op = "clear" /\ last.found > 0 /\ collection # <<>>

\* C6: with memory disabled the manager has no storage, no storage method
\* is ever called, nothing is stored or cached, and history is empty.
C6_DisabledMemoryNoOp ==
    ~memConfig.enabled =>
        /\ mmStorage = "None"
        /\ ~storageCalls
        /\ collection = <<>>
        /\ DOMAIN cacheEntries = {}
        /\ last.op = "history" => last.ret = <<>>

\* C6 witness: memory disabled with a custom storage supplied, a history
\* read made after saves.
C6_Witness ==
    /\ ~memConfig.enabled
    /\ memConfig.custom_storage
    /\ nSaved > 0
    /\ last.op = "history"

(***************************************************************************)
(* Properties of the log layer.                                            *)
(***************************************************************************)
\* C7: log_request returns a non-empty id: the caller's when that is a
\* non-empty str, a fresh uuid otherwise, with or without a storage and
\* whether or not the write fails; and a response record written by
\* log_response carries the id the call was given.
C7_CorrelationId ==
    /\ lastLog.op = "log_request" =>
          /\ IdTruthy(lastLog.ret)
          /\ IdTruthy(lastLog.request_id) => lastLog.ret = lastLog.request_id
          /\ ~IdTruthy(lastLog.request_id) => lastLog.ret = Uuid(nextUuid)
    /\ (lastLog.op = "log_response" /\ lastLog.wrote) =>
          /\ logRecords[Len(logRecords)].log_type = "response"
          /\ logRecords[Len(logRecords)].request_id = lastLog.request_id

\* C7 witness: a response record written with a uuid that log_request drew
\* and logged before.
C7_Witness ==
    /\ lastLog.op = "log_response"
    /\ lastLog.wrote
    /\ lastLog.request_id = Uuid(1)
    /\ \E i \in DOMAIN logRecords :
          /\ logRecords[i].log_type = "request"
          /\ logRecords[i].data.request_id = Uuid(1)

\* C8 as stated: the log storage never holds a record of a kind whose flag
\* is false in the log configuration, whatever the storage.
C8_FlagsRespected ==
    \A i \in DOMAIN logRecords : LogFlag(logConfig, logRecords[i].log_type)

(***************************************************************************)
(* Properties of the storage factory, as QianwenClient.initialize uses it. *)
(***************************************************************************)
\* C10: once initialize() has built the MemoryManager (the LogManager) from
\* a configuration that enables memory (logging) and carries a custom
\* storage, the manager exists and its storage is that instance, whatever
\* the storage_type tag.
C10_CustomStorageChosen ==
    /\ (clientPc # "constructed" /\ memConfig.enabled /\ memConfig.custom_storage)
          => (memory_manager /\ mmStorage = "custom")
    /\ (clientPc \in {"initialized", "log_raised"}
          /\ logConfig.enabled /\ logConfig.custom_storage)
          => (log_manager /\ lmStorage = "custom")

\* C10 witness: both managers built with custom storages under tags that
\* name a built-in backend (mongodb) and an unimplemented one (file).
C10_Witness ==
    /\ clientPc = "initialized"
    /\ memConfig.enabled /\ memConfig.custom_storage
    /\ memConfig.storage_type = "file" /\ mmStorage = "custom"
    /\ logConfig.enabled /\ logConfig.custom_storage
    /\ logConfig.storage_type = "mongodb" /\ lmStorage = "custom"

\* The configurations the factories have no storage for: enabled, no
\* custom storage, and a tag other than the built-in "mongodb".
UnsupportedMemoryConfigs ==
    {c \in MemoryConfigs : c.enabled /\ ~c.custom_storage /\ c.storage_type # "mongodb"}

UnsupportedLogConfigs ==
    {c \in LogConfigs : c.enabled /\ ~c.custom_storage /\ c.storage_type # "mongodb"}

\* C11 (as the specification states it): when initialize() has failed in a
\* factory, the error kind it raised is the one error kind both factories
\* raise for every unsupported configuration, whatever the tag.
C11_OneErrorKind ==
    clientPc \in {"memory_raised", "log_raised"} =>
        /\ Raised(initError)
        /\ \A c \in UnsupportedMemoryConfigs : create_memory_storage(c) = initError
        /\ \A c \in UnsupportedLogConfigs : create_log_storage(c) = initError

\* C12 (as the specification states it): once the client is constructed,
\* no configuration error is raised any more: initialize() never ends in
\* the error of an unknown or unimplemented storage kind.
C12_NoDeferredConfigError ==
    clientPc # "constructed" => initError = ""

\* The scope `async with client:` has been left.
ScopeLeft == clientPc \in {"memory_raised", "log_raised", "closed", "close_raised"}

\* C16 (as the specification states it): once the scope is left, whatever
\* the path, no storage the client initialized is still open and the
\* transport handle is closed.
C16_ReleasedOnExit ==
    ScopeLeft => /\ resources.memory # "open"
                 /\ resources.log # "open"
                 /\ resources.transport = "closed"

(***************************************************************************)
(* Properties of the chat layer.                                           *)
(***************************************************************************)
\* The history context a stored document gives.
ContextOf(doc) == Msg(doc.role, LoadedContent(doc.content))

\* The documents of the builder's session, in insertion order.
SessionStored == StoredFor(collection, chat.user_id, chat.session_id)

\* The contexts "the n most recent stored messages in stored order" can
\* mean: the last n in insertion order, or the last n of a timestamp order.
MostRecentContexts(n) ==
    {[i \in DOMAIN LastN(SessionStored, n) |-> ContextOf(LastN(SessionStored, n)[i])]}
    \cup
    {[i \in DOMAIN LastN(order, n) |-> ContextOf(collection[LastN(order, n)[i]])] :
        order \in MongoSort(collection,
                            MongoFind(collection, chat.user_id, chat.session_id))}

\* C2 (as the specification states it, for N >= 1): when ask has just built
\* its request with memory enabled, max_history_length = N and more than N
\* messages stored for the session, the history context of the request is
\* exactly the N most recent stored messages.
C2_MostRecentIncluded ==
    (/\ call.kind = "ask" /\ call.pc = "log_request"
     /\ chat.memory_enabled /\ memory_manager /\ mongoReady
     /\ memConfig.max_history_length >= 1
     /\ Len(SessionStored) > memConfig.max_history_length)
    => HistoryEntries(call.history) \in MostRecentContexts(memConfig.max_history_length)

\* The concatenation, in order, of the content fragments of the chunks.
RECURSIVE Concat(_)
Concat(fragments) ==
    IF fragments = <<>> THEN "" ELSE Head(fragments) \o Concat(Tail(fragments))

\* The documents stored since the invocation started.
StoredByCall == SubSeq(collection, call.before + 1, Len(collection))

\* What a completed stream has persisted: nothing if no content arrived (or
\* the storage never connected), else the user message and right after it
\* the assistant message whose content is the concatenation of the
\* fragments yielded.
StreamPersisted ==
    IF Concat(call.yielded) = "" \/ ~mongoReady
    THEN StoredByCall = <<>>
    ELSE /\ Len(StoredByCall) = 2
         /\ \A i \in 1..2 : /\ StoredByCall[i].user_id = chat.user_id
                            /\ StoredByCall[i].session_id = chat.session_id
         /\ StoredByCall[1].role = "user"
         /\ StoredByCall[1].content = Str(call.message)
         /\ StoredByCall[2].role = "assistant"
         /\ StoredByCall[2].content = Str(Concat(call.yielded))

ClampedTemperature(t) == IF t < 0 THEN 0 ELSE IF t > 10 THEN 10 ELSE t

\* What it says the max_tokens mutator stores for n: n, but at least 1.
ClampedTokens(n) == IF n < 1 THEN 1 ELSE n

\* C13: whenever temperature(t) is called the builder then holds
\* max(0, min(1, t)), and whenever max_tokens(n) is called it then holds
\* max(1, n).
C13_Clamped ==
    [][/\ \A t \in TemperatureInputs :
             ChatTemperature(t) => chat'.temperature = ClampedTemperature(t)
       /\ \A n \in TokenInputs :
             ChatMaxTokens(n) => chat'.max_tokens = ClampedTokens(n)]_vars

\* C13 witness: the builder holds 1.0 and 1, neither of them a default:
\* both mutators have acted.
C13_Witness ==
    /\ call = NoChatCall
    /\ chat.temperature = 10
    /\ chat.max_tokens = 1

\* The events of the invocation, as a set.
Events == {call.events[i] : i \in DOMAIN call.events}

\* The number of events of the invocation that satisfy a membership test.
CountEvents(names) == Cardinality({i \in DOMAIN call.events : call.events[i] \in names})

\* C14: whatever storage operations fail (history read, save, log request,
\* log response, log error), an ask never takes its except branch because
\* of a storage, and once its API call has succeeded it neither raises nor
\* ends otherwise than by returning the response.
C14_StorageFailuresSwallowed ==
    call.kind = "ask" =>
        /\ call.error # "StorageError"
        /\ "api_ok" \in Events =>
              /\ call.pc # "except"
              /\ call.outcome \in {"", "returned"}
              /\ call.pc = "done" => call.outcome = "returned"

\* C14 witness: with logging and memory enabled and three messages stored,
\* an ask has returned a response with a choice although the history read,
\* both saves and both log writes failed.
C14_Witness ==
    /\ faulty /\ log_manager /\ memory_manager /\ chat.memory_enabled
    /\ call.kind = "ask" /\ call.pc = "done" /\ call.outcome = "returned"
    /\ call.response.choices # <<>>
    /\ call.before = 3 /\ call.history = <<>>
    /\ call.events = <<"get_history", "log_request", "api_ok", "log_response",
                       "save_user", "save_assistant">>
    /\ Len(collection) = 3
    /\ logRecords = <<>>

\* The error entries the log holds.
ErrorRecords == {i \in DOMAIN logRecords : logRecords[i].log_type = "error"}

\* C15: when the outbound API call of ask, stream or a multimodal request
\* has failed (for stream also while the response is iterated, after
\* fragments were yielded), nothing is saved in that turn; and when the
\* invocation has ended, log_error was called exactly once (if the client
\* has a log manager), every error entry written carries the kind of the
\* exception, and the caller got QianwenAPIError.
C15_ApiFailure ==
    call.error \in ApiErrors =>
        /\ Len(collection) = call.before
        /\ Events \cap {"save_user", "save_assistant"} = {}
        /\ call.pc = "done" =>
              /\ call.outcome = "QianwenAPIError"
              /\ CountEvents({"log_error"}) = (IF log_manager THEN 1 ELSE 0)
              /\ \A i \in ErrorRecords :
                    logRecords[i].data.payload.error_type = call.error

\* C15 witness: a stream with memory and logging enabled has yielded
\* content, then its iteration failed; the error entry is written and the
\* caller got QianwenAPIError.
C15_Witness ==
    /\ log_manager /\ memory_manager /\ chat.memory_enabled
    /\ call.kind = "stream" /\ call.pc = "done"
    /\ call.outcome = "QianwenAPIError"
    /\ call.full_content # ""
    /\ "iteration_error" \in Events
    /\ ErrorRecords # {}

\* The documents stored when the invocation started.
StoredBefore == SubSeq(collection, 1, call.before)

\* The history the builder uses: what get_history returned if memory is
\* enabled for the builder and the client has a memory manager.
UsedHistory == IF chat.memory_enabled /\ memory_manager THEN call.history ELSE <<>>

\* The fetched history follows the stored order: its entries are, one by
\* one and without repetition, the leading documents of a timestamp order
\* of the session's stored documents.
HistoryInStoredOrder ==
    \E order \in MongoSort(StoredBefore,
                           MongoFind(StoredBefore, chat.user_id, chat.session_id)) :
        /\ Len(call.history) <= Len(order)
        /\ \A i \in DOMAIN call.history :
              Msg(call.history[i].role, call.history[i].content)
                  = ContextOf(StoredBefore[order[i]])

\* C17: while an ask, a stream or a multimodal request is under way, the
\* messages of its request are: the system message first if and only if
\* one is set, then the fetched history entries in stored order if and
\* only if memory is enabled, then the content of the turn as the one final
\* user message, and nothing else.
C17_MessageSequence ==
    (call.kind # "none" /\ call.pc # "done") =>
        LET m == call.request.messages
            k == IF chat.system_message # "" THEN 1 ELSE 0
        IN /\ Len(m) = k + Len(UsedHistory) + 1
           /\ k = 1 => m[1] = Msg("system", Str(chat.system_message))
           /\ \A i \in DOMAIN UsedHistory :
                 m[k + i] = Msg(UsedHistory[i].role, UsedHistory[i].content)
           /\ m[Len(m)] = Msg("user", call.content)
           /\ ~(chat.memory_enabled /\ memory_manager) => call.history = <<>>
           /\ HistoryInStoredOrder

\* C17 witness: a multimodal request with a system message and two history
\* entries has assembled its four messages.
C17_Witness ==
    /\ call.kind = "multimodal" /\ call.pc = "log_request"
    /\ chat.system_message = "sys"
    /\ Len(call.history) = 2
    /\ Len(call.request.messages) = 4

\* C18: while an ask, a stream or a multimodal request is under way, its
\* request carries the web-search tool descriptor if and only if search is
\* enabled on the builder.
C18_ToolsIffSearch ==
    (call.kind # "none" /\ call.pc # "done") =>
        (call.request.tools = WebSearchTools <=> chat.search_enabled)

\* s is an initial part of t.
IsPrefix(s, t) == Len(s) <= Len(t) /\ \A i \in DOMAIN s : s[i] = t[i]

\* The events of a successful ask of a client with a log manager, in the
\* order of the code; the history read and the saves only with memory.
AskOrder(withMemory) ==
    (IF withMemory THEN <<"get_history">> ELSE <<>>)
    \o <<"log_request", "api_ok", "log_response">>
    \o (IF withMemory THEN <<"save_user", "save_assistant">> ELSE <<>>)

ApiOutcomes ==
    SelectSeq(call.events, LAMBDA e : e \in {"api_ok"} \union ApiErrors)

\* C20: an ask and a multimodal request send at most one outbound API call
\* and a stream at most two; a second call is sent only after the first,
\* sent with the include-usage option, was rejected with TypeError, and it
\* is the first request with that option removed and nothing else changed;
\* every call but the last ended in that rejection, so no other failure is
\* followed by another call.
C20_AtMostOneRetry ==
    /\ Len(ApiOutcomes) = Len(call.sent)
    /\ call.kind \in {"ask", "multimodal"} => Len(call.sent) <= 1
    /\ Len(call.sent) <= 2
    /\ \A i \in DOMAIN call.sent :
          i < Len(call.sent) => ApiOutcomes[i] = "TypeError"
    /\ Len(call.sent) = 2 =>
          /\ call.kind = "stream"
          /\ call.sent[1].stream_options
          /\ call.sent[2] = [call.sent[1] EXCEPT !.stream_options = FALSE]

\* C20 witness: a stream whose first call was rejected with TypeError sent
\* its second call, which succeeded.
C20_Witness ==
    /\ call.kind = "stream"
    /\ Len(call.sent) = 2
    /\ ApiOutcomes = <<"TypeError", "api_ok">>

(***************************************************************************)
(* Properties of the builder's mutators and its reuse.                     *)
(***************************************************************************)
\* The step leaves every builder parameter but `field` as it was.
OnlyChanges(field) == \A g \in DOMAIN chat \ {field} : chat'[g] = chat[g]

\* The step leaves the memory store, its cache, the log store and the
\* invocation (with the requests it sent) as they were.
StoresAndCallUnchanged ==
    UNCHANGED <<collection, cacheEntries, storageCalls, logRecords, nextUuid, call>>

\* C21: every mutator step sets only its own parameter of the one builder:
\* the other parameters, the memory store and cache, the log store and the
\* requests sent stay as they were.
C21_MutatorFrame ==
    [][/\ (\E m \in ModelNames : ChatModel(m)) => OnlyChanges("model")
       /\ (\E t \in TemperatureInputs : ChatTemperature(t)) => OnlyChanges("temperature")
       /\ (\E n \in TokenInputs : ChatMaxTokens(n)) => OnlyChanges("max_tokens")
       /\ (\E m \in SystemMessages : ChatSystem(m)) => OnlyChanges("system_message")
       /\ (\E e \in BOOLEAN : ChatSearch(e)) => OnlyChanges("search_enabled")
       /\ (\E e \in BOOLEAN : ChatMemory(e)) => OnlyChanges("memory_enabled")
       /\ (\E u \in Users : ChatUser(u)) => OnlyChanges("user_id")
       /\ (\E x \in Sessions : ChatSession(x)) => OnlyChanges("session_id")
       /\ BuilderNext => StoresAndCallUnchanged]_vars

\* C21 witness: a chain of mutators has set every parameter away from its
\* initial value, and each setting was kept by the later ones.
C21_Witness ==
    /\ chat.model = "qwen-max" /\ chat.temperature = 4 /\ chat.max_tokens = 5
    /\ chat.system_message = "sys" /\ chat.search_enabled
    /\ chat.memory_enabled # memConfig.enabled
    /\ chat.user_id = "a:b" /\ chat.session_id = "b:c"
    /\ call = NoChatCall

\* The builder is configuring: no invocation is under way.
Configuring == call.pc = "done"

\* C22: no step of an invocation, from its start to its return or raise,
\* changes a builder parameter; an invocation under way can always go on
\* (it is never stuck short of returning or raising); and a builder that
\* finished an invocation, with a result or an error, is configuring again:
\* it accepts the mutators and, while the bound on invocations allows,
\* another ask, stream or multimodal request.
C22_Reusable ==
    /\ [][call' # call => chat' = chat]_vars
    /\ [](~Configuring => ENABLED ReuseNext)
    /\ []((Configuring /\ call.kind # "none") =>
             /\ call.outcome \in {"returned", "QianwenAPIError", "closed"}
             /\ ENABLED Search /\ ENABLED Memory
             /\ nCalls < MaxCalls =>
                   ENABLED AskStart /\ ENABLED StreamStart /\ ENABLED MultimodalStart)

\* C22 witness: the second invocation of a builder returned, after its
\* first one had failed and left an error record.
C22_Witness ==
    /\ nCalls = 2 /\ Configuring
    /\ call.kind = "multimodal" /\ call.outcome = "returned"
    /\ ErrorRecords # {}
    /\ chat.search_enabled

(***************************************************************************)
(* Properties of the local cache.                                          *)
(***************************************************************************)
\* C23: with a local cache configured, once get_history has returned the
\* cache holds an entry for the session key that was read.
C23_ReadWarmsCache ==
    (mmLocalCache = "TTLCache" /\ last.op = "history") =>
        CacheKey(last.user_id, last.session_id) \in DOMAIN cacheEntries

C24_MemoryOffNoTouch ==
    /\ []((call.kind # "none" /\ call.pc # "done" /\ ~chat.memory_enabled) =>
             /\ call.history = <<>>
             /\ Len(call.request.messages)
                   = (IF chat.system_message # "" THEN 1 ELSE 0) + 1
             /\ Events \cap {"get_history", "save_user", "save_assistant"} = {}
             /\ collection = StoredBefore)
    /\ [][(call' # call /\ ~chat.memory_enabled) =>
             UNCHANGED <<collection, cacheEntries, storageCalls>>]_vars

\* C24 witness: on a client with a memory manager and stored messages for
\* the session, a stream made with the toggle off has returned; the store
\* holds what it held and the storage was never contacted.
C24_Witness ==
    /\ memory_manager /\ ~chat.memory_enabled
    /\ call.kind = "stream" /\ call.outcome = "returned"
    /\ call.full_content # ""
    /\ call.before = 3 /\ Len(collection) = 3
    /\ ~storageCalls

\* The documents of the given role the invocation stored.
StoredRole(role) == {i \in DOMAIN StoredByCall : StoredByCall[i].role = role}

\* C25: once an invocation has returned or raised, it has stored the user
\* message and the assistant reply of its turn, or neither of them.
C25_TurnAtomic ==
    (call.kind # "none" /\ call.pc = "done") =>
        \/ StoredByCall = <<>>
        \/ /\ Len(StoredByCall) = 2
           /\ StoredRole("user") = {1} /\ StoredRole("assistant") = {2}

(***************************************************************************)
(* Properties of the request parameters.                                   *)
(***************************************************************************)
\* C28: every request handed to the API carries a temperature within
\* [0, 1] (0..10 tenths) and a max_tokens of at least 1.
C28_RequestInRange ==
    \A i \in DOMAIN call.sent :
        /\ call.sent[i].temperature \in MinTemperature..MaxTemperature
        /\ call.sent[i].max_tokens >= MinTokens

(***************************************************************************)
(* Properties of the terminal log entry.                                   *)
(***************************************************************************)
\* The invocation logged its request on a client with a log manager.
RequestLogged == log_manager /\ "log_request" \in Events

\* The terminal log entries the invocation attempted.
TerminalEntries == CountEvents({"log_response", "log_error"})

C30_OneKeyPerTurn ==
    call.kind # "none" =>
        /\ \A i \in DOMAIN StoredByCall :
              <<StoredByCall[i].user_id, StoredByCall[i].session_id>> = call.key
        /\ \A i \in DOMAIN logRecords :
              <<logRecords[i].user_id, logRecords[i].session_id>> = call.key

(***************************************************************************)
(* Properties of two builders running concurrently.                        *)
(***************************************************************************)
\* The two builders with their invocations.
Builders == {[chat |-> chat, call |-> call], peer}

KeyOf(b) == <<b.chat.user_id, b.chat.session_id>>

\* The texts only the session of the given key may hold as user messages.
OwnTexts(key) == {OldText(key), AskText(key)}
ForeignTexts(key) == {"old1", "old2", "hi", "42"} \ OwnTexts(key)

\* C26: under every interleaving of two asks on different session keys,
\* every stored user message lies under the key of the builder whose text
\* it is, an assistant reply is stored only under the key of a builder
\* whose ask received a response, every step stores only under the key of
\* the builder that takes it and leaves the stored documents as they were,
\* and the history and the request of each builder hold no message of the
\* other session.
C26_SessionsIsolated ==
    /\ [](\A i \in DOMAIN collection :
             LET d == collection[i]
             IN /\ d.role = "user" => d.content.text \in OwnTexts(<<d.user_id, d.session_id>>)
                /\ d.role = "assistant" =>
                      \E b \in Builders : /\ KeyOf(b) = <<d.user_id, d.session_id>>
                                          /\ "api_ok" \in {b.call.events[j] :
                                                              j \in DOMAIN b.call.events})
    /\ [](\A b \in Builders :
             /\ \A i \in DOMAIN b.call.history :
                   /\ b.call.history[i].content.text \notin ForeignTexts(KeyOf(b))
                   /\ \E j \in MongoFind(collection, b.chat.user_id, b.chat.session_id) :
                         ContextOf(collection[j])
                             = Msg(b.call.history[i].role, b.call.history[i].content)
             /\ b.call.kind # "none" =>
                   \A i \in DOMAIN b.call.request.messages :
                       b.call.request.messages[i].content.text
                           \notin ForeignTexts(KeyOf(b)))
    /\ [][/\ Len(collection') >= Len(collection)
          /\ SubSeq(collection', 1, Len(collection)) = collection
          /\ \A i \in (Len(collection) + 1)..Len(collection') :
                <<collection'[i].user_id, collection'[i].session_id>>
                    = <<chat.user_id, chat.session_id>>]_vars

\* C26 witness: both asks have returned after each read its history while
\* the other was under way, and the four new messages are stored in an
\* interleaved order.
C26_Witness ==
    /\ \A b \in Builders : /\ b.call.outcome = "returned"
                           /\ Len(b.call.history) = 1
                           /\ b.call.before = 2
    /\ Len(collection) = 6
    /\ collection[3].role = "user" /\ collection[4].role = "user"
    /\ <<collection[3].user_id, collection[3].session_id>>
          # <<collection[4].user_id, collection[4].session_id>>

====
